---- MODULE Spec2Model ----
(***************************************************************************)
(* Model of scripts/script-adapters/python_openai_bridge.py: the bridge    *)
(* that translates a canonical (block structured) chat request into an     *)
(* OpenAI chat-completion request, calls the backend once and translates   *)
(* the answer back.                                                        *)
(*                                                                         *)
(* Python values are tagged records; a Python str is a sequence of         *)
(* one-character strings, so that strip(), lower(), join(), json.dumps and *)
(* json.loads are computed character by character.                         *)
(***************************************************************************)
EXTENDS Integers, Sequences, FiniteSets, TLC

VARIABLES
    pc,           \* position of main()
    stdin,        \* text on the input channel
    env,          \* the process environment (os.getenv)
    envelope,     \* main: envelope
    mode,         \* main: mode
    openai_payload, \* main: openai_payload
    req,          \* main: req and timeout, what urlopen is called with
    raw,          \* main: raw, the decoded response body
    upstream,     \* main: upstream
    stdout,       \* documents written to the output channel
    stderr,       \* diagnostics written to the error channel
    exit_status,  \* -1 while running, else the termination status
    sent,         \* requests the transport has received (urlopen calls)
    fn,           \* the translation function under study
    fn_in,        \* its arguments
    fn_out        \* its result once applied

vars == <<pc, stdin, env, envelope, mode, openai_payload, req, raw, upstream,
          stdout, stderr, exit_status, sent, fn, fn_in, fn_out>>

driver_vars == <<pc, stdin, env, envelope, mode, openai_payload, req, raw,
                 upstream, stdout, stderr, exit_status, sent>>

-----------------------------------------------------------------------------
(* Bounds *)

MaxBlocks == 3
MaxMessages == 2
MaxTools == 2
MaxToolCalls == 2

-----------------------------------------------------------------------------
(* Python values *)

PyNone == [k |-> "null"]
PyBool(b) == [k |-> "bool", b |-> b]
PyInt(n) == [k |-> "int", n |-> n]
PyStr(s) == [k |-> "str", s |-> s]
PyList(items) == [k |-> "list", items |-> items]
PyDict(kv) == [k |-> "dict", kv |-> kv]

is_str(v) == v.k = "str"
is_list(v) == v.k = "list"
is_dict(v) == v.k = "dict"

\* bool(v): the truth value Python gives a value in `x or y`, `if x`
Truthy(v) ==
    CASE v.k = "null" -> FALSE
      [] v.k = "bool" -> v.b
      [] v.k = "int"  -> v.n # 0
      [] v.k = "str"  -> v.s # <<>>
      [] v.k = "list" -> v.items # <<>>
      [] v.k = "dict" -> v.kv # <<>>

\* x or y
Or(x, y) == IF Truthy(x) THEN x ELSE y

HasKey(d, key) == \E i \in 1..Len(d.kv) : d.kv[i][1] = key

\* d.get(key): the value of the key, None when the key is missing
Get(d, key) ==
    IF HasKey(d, key)
    THEN d.kv[CHOOSE i \in 1..Len(d.kv) : d.kv[i][1] = key][2]
    ELSE PyNone

\* d[key] = value on a dict: replaces in place, else appends
Put(d, key, value) ==
    IF HasKey(d, key)
    THEN PyDict([i \in 1..Len(d.kv) |->
                 IF d.kv[i][1] = key THEN <<key, value>> ELSE d.kv[i]])
    ELSE PyDict(Append(d.kv, <<key, value>>))

-----------------------------------------------------------------------------
(* str methods *)

Whitespace == {" ", "\t", "\n", "\r"}

UpperCase == <<"A","B","C","D","E","F","G","H","I","J","K","L","M",
               "N","O","P","Q","R","S","T","U","V","W","X","Y","Z">>
LowerCase == <<"a","b","c","d","e","f","g","h","i","j","k","l","m",
               "n","o","p","q","r","s","t","u","v","w","x","y","z">>

lower_char(c) ==
    IF \E i \in 1..Len(UpperCase) : UpperCase[i] = c
    THEN LowerCase[CHOOSE i \in 1..Len(UpperCase) : UpperCase[i] = c]
    ELSE c

\* s.lower()
lower(s) == [i \in 1..Len(s) |-> lower_char(s[i])]

RECURSIVE lstrip(_)
lstrip(s) ==
    IF s # <<>> /\ Head(s) \in Whitespace THEN lstrip(Tail(s)) ELSE s

RECURSIVE rstrip(_)
rstrip(s) ==
    IF s # <<>> /\ s[Len(s)] \in Whitespace
    THEN rstrip(SubSeq(s, 1, Len(s) - 1))
    ELSE s

\* s.strip()
strip(s) == rstrip(lstrip(s))

\* sep.join(parts)
RECURSIVE join(_, _)
join(sep, parts) ==
    IF parts = <<>> THEN <<>>
    ELSE IF Len(parts) = 1 THEN parts[1]
    ELSE parts[1] \o sep \o join(sep, Tail(parts))

\* for a list of sequences: their concatenation (list.extend in a loop)
RECURSIVE Flatten(_)
Flatten(ss) == IF ss = <<>> THEN <<>> ELSE Head(ss) \o Flatten(Tail(ss))

\* [x for x in parts if x]
RECURSIVE non_empty(_)
non_empty(parts) ==
    IF parts = <<>> THEN <<>>
    ELSE (IF Head(parts) # <<>> THEN <<Head(parts)>> ELSE <<>>)
            \o non_empty(Tail(parts))

-----------------------------------------------------------------------------
(* json.dumps(value, ensure_ascii=False) *)

Digits == <<"0","1","2","3","4","5","6","7","8","9">>

RECURSIVE nat_to_chars(_)
nat_to_chars(n) ==
    IF n < 10 THEN <<Digits[n + 1]>>
    ELSE nat_to_chars(n \div 10) \o <<Digits[(n % 10) + 1]>>

int_to_chars(n) == IF n < 0 THEN <<"-">> \o nat_to_chars(0 - n) ELSE nat_to_chars(n)

escape_char(c) ==
    CASE c = "\"" -> <<"\\", "\"">>
      [] c = "\\" -> <<"\\", "\\">>
      [] c = "\n" -> <<"\\", "n">>
      [] c = "\r" -> <<"\\", "r">>
      [] c = "\t" -> <<"\\", "t">>
      [] OTHER    -> <<c>>

encode_str(s) ==
    <<"\"">> \o Flatten([i \in 1..Len(s) |-> escape_char(s[i])]) \o <<"\"">>

RECURSIVE json_dumps(_)
json_dumps(v) ==
    CASE v.k = "null" -> <<"n","u","l","l">>
      [] v.k = "bool" -> IF v.b THEN <<"t","r","u","e">> ELSE <<"f","a","l","s","e">>
      [] v.k = "int"  -> int_to_chars(v.n)
      [] v.k = "str"  -> encode_str(v.s)
      [] v.k = "list" ->
            <<"[">> \o join(<<",", " ">>,
                            [i \in 1..Len(v.items) |-> json_dumps(v.items[i])])
                    \o <<"]">>
      [] v.k = "dict" ->
            <<"{">> \o join(<<",", " ">>,
                            [i \in 1..Len(v.kv) |->
                                encode_str(v.kv[i][1]) \o <<":", " ">>
                                    \o json_dumps(v.kv[i][2])])
                    \o <<"}">>

-----------------------------------------------------------------------------
(* json.loads(text): ok is FALSE where Python raises json.JSONDecodeError.   *)
(* Covers null, true, false, integers, strings with the escapes \" \\ \/ \n  *)
(* \r \t, arrays and objects; the input texts hold no floats, no \u escapes  *)
(* and no NaN/Infinity.                                                      *)

Bad == [ok |-> FALSE, v |-> PyNone, i |-> 0]
Good(v, i) == [ok |-> TRUE, v |-> v, i |-> i]

char_at(s, i) == IF i >= 1 /\ i <= Len(s) THEN s[i] ELSE ""

has_at(s, i, word) ==
    /\ i + Len(word) - 1 <= Len(s)
    /\ SubSeq(s, i, i + Len(word) - 1) = word

RECURSIVE skip_ws(_, _)
skip_ws(s, i) ==
    IF i <= Len(s) /\ s[i] \in Whitespace THEN skip_ws(s, i + 1) ELSE i

is_digit(c) == \E d \in 1..10 : Digits[d] = c
digit_value(c) == (CHOOSE d \in 1..10 : Digits[d] = c) - 1

unescape(c) ==
    CASE c = "n" -> "\n"
      [] c = "r" -> "\r"
      [] c = "t" -> "\t"
      [] OTHER   -> c

\* i is just after the opening quote
RECURSIVE scan_string(_, _, _)
scan_string(s, i, acc) ==
    IF i > Len(s) THEN Bad
    ELSE IF s[i] = "\"" THEN Good(acc, i + 1)
    ELSE IF s[i] = "\\"
    THEN IF char_at(s, i + 1) \in {"\"", "\\", "/", "n", "r", "t"}
         THEN scan_string(s, i + 2, Append(acc, unescape(s[i + 1])))
         ELSE Bad
    ELSE IF s[i] \in {"\n", "\r", "\t"} THEN Bad
    ELSE scan_string(s, i + 1, Append(acc, s[i]))

RECURSIVE scan_digits(_, _, _)
scan_digits(s, i, n) ==
    IF is_digit(char_at(s, i))
    THEN scan_digits(s, i + 1, 10 * n + digit_value(s[i]))
    ELSE Good(n, i)

\* -?(0|[1-9][0-9]*)
scan_number(s, i) ==
    LET neg == char_at(s, i) = "-"
        j == IF neg THEN i + 1 ELSE i
        r == IF char_at(s, j) = "0" THEN Good(0, j + 1) ELSE scan_digits(s, j, 0)
    IN  IF ~is_digit(char_at(s, j)) THEN Bad
        ELSE Good(PyInt(IF neg THEN 0 - r.v ELSE r.v), r.i)

RECURSIVE parse_value(_, _), parse_elements(_, _, _), parse_members(_, _, _)

\* scan_once: the value that starts at i
parse_value(s, i) ==
    LET c == char_at(s, i)
    IN  CASE c = "\"" ->
               LET r == scan_string(s, i + 1, <<>>)
               IN  IF r.ok THEN Good(PyStr(r.v), r.i) ELSE Bad
          [] c = "{" ->
               LET j == skip_ws(s, i + 1)
               IN  IF char_at(s, j) = "}" THEN Good(PyDict(<<>>), j + 1)
                   ELSE IF char_at(s, j) = "\"" THEN parse_members(s, j + 1, PyDict(<<>>))
                   ELSE Bad
          [] c = "[" ->
               LET j == skip_ws(s, i + 1)
               IN  IF char_at(s, j) = "]" THEN Good(PyList(<<>>), j + 1)
                   ELSE parse_elements(s, j, <<>>)
          [] c = "n" /\ has_at(s, i, <<"n","u","l","l">>) -> Good(PyNone, i + 4)
          [] c = "t" /\ has_at(s, i, <<"t","r","u","e">>) -> Good(PyBool(TRUE), i + 4)
          [] c = "f" /\ has_at(s, i, <<"f","a","l","s","e">>) -> Good(PyBool(FALSE), i + 5)
          [] OTHER -> scan_number(s, i)

\* JSONArray: i is at the start of the next element
parse_elements(s, i, acc) ==
    LET r == parse_value(s, i)
    IN  IF ~r.ok THEN Bad
        ELSE LET j == skip_ws(s, r.i)
                 acc1 == Append(acc, r.v)
             IN  IF char_at(s, j) = "]" THEN Good(PyList(acc1), j + 1)
                 ELSE IF char_at(s, j) = "," THEN parse_elements(s, skip_ws(s, j + 1), acc1)
                 ELSE Bad

\* JSONObject: i is just after the opening quote of the next key
parse_members(s, i, acc) ==
    LET key == scan_string(s, i, <<>>)
    IN  IF ~key.ok THEN Bad
        ELSE LET j == skip_ws(s, key.i)
             IN  IF char_at(s, j) # ":" THEN Bad
                 ELSE LET r == parse_value(s, skip_ws(s, j + 1))
                      IN  IF ~r.ok THEN Bad
                          ELSE LET m == skip_ws(s, r.i)
                                   acc1 == Put(acc, key.v, r.v)
                               IN  IF char_at(s, m) = "}" THEN Good(acc1, m + 1)
                                   ELSE IF char_at(s, m) = ","
                                   THEN LET q == skip_ws(s, m + 1)
                                        IN  IF char_at(s, q) = "\""
                                            THEN parse_members(s, q + 1, acc1)
                                            ELSE Bad
                                   ELSE Bad

json_loads(s) ==
    LET r == parse_value(s, skip_ws(s, 1))
    IN  IF r.ok /\ skip_ws(s, r.i) = Len(s) + 1 THEN Good(r.v, r.i) ELSE Bad

-----------------------------------------------------------------------------
(* String literals of the program *)

s_role == <<"r","o","l","e">>
s_content == <<"c","o","n","t","e","n","t">>
s_type == <<"t","y","p","e">>
s_text == <<"t","e","x","t">>
s_tool_use == <<"t","o","o","l","_","u","s","e">>
s_tool_result == <<"t","o","o","l","_","r","e","s","u","l","t">>
s_id == <<"i","d">>
s_name == <<"n","a","m","e">>
s_input == <<"i","n","p","u","t">>
s_tool_use_id == <<"t","o","o","l","_","u","s","e","_","i","d">>
s_tool_call_id == <<"t","o","o","l","_","c","a","l","l","_","i","d">>
s_function == <<"f","u","n","c","t","i","o","n">>
s_arguments == <<"a","r","g","u","m","e","n","t","s">>
s_tool_calls == <<"t","o","o","l","_","c","a","l","l","s">>
s_user == <<"u","s","e","r">>
s_assistant == <<"a","s","s","i","s","t","a","n","t">>
s_system == <<"s","y","s","t","e","m">>
s_tool == <<"t","o","o","l">>
s_description == <<"d","e","s","c","r","i","p","t","i","o","n">>
s_input_schema == <<"i","n","p","u","t","_","s","c","h","e","m","a">>
s_parameters == <<"p","a","r","a","m","e","t","e","r","s">>
s_properties == <<"p","r","o","p","e","r","t","i","e","s">>
s_object == <<"o","b","j","e","c","t">>
s_choices == <<"c","h","o","i","c","e","s">>
s_message == <<"m","e","s","s","a","g","e">>
s_finish_reason == <<"f","i","n","i","s","h","_","r","e","a","s","o","n">>
s_usage == <<"u","s","a","g","e">>
s_model == <<"m","o","d","e","l">>
s_blocks == <<"b","l","o","c","k","s">>
s_stop_reason == <<"s","t","o","p","_","r","e","a","s","o","n">>
s_input_tokens == <<"i","n","p","u","t","_","t","o","k","e","n","s">>
s_output_tokens == <<"o","u","t","p","u","t","_","t","o","k","e","n","s">>
s_prompt_tokens == <<"p","r","o","m","p","t","_","t","o","k","e","n","s">>
s_completion_tokens == <<"c","o","m","p","l","e","t","i","o","n","_","t","o","k","e","n","s">>
s__raw == <<"_","r","a","w">>
s_end_turn == <<"e","n","d","_","t","u","r","n">>
s_max_tokens == <<"m","a","x","_","t","o","k","e","n","s">>
s_length == <<"l","e","n","g","t","h">>
s_function_call == <<"f","u","n","c","t","i","o","n","_","c","a","l","l">>
s_mode == <<"m","o","d","e">>
s_request == <<"r","e","q","u","e","s","t">>
s_complete == <<"c","o","m","p","l","e","t","e">>
s_stream == <<"s","t","r","e","a","m">>
s_response == <<"r","e","s","p","o","n","s","e">>
s_tools == <<"t","o","o","l","s">>
s_messages == <<"m","e","s","s","a","g","e","s">>
s_default_model == <<"g","p","t","-","4","o","-","m","i","n","i">>
s_default_base_url == <<"h","t","t","p",":","/","/","1","2","7",".","0",".","0",".","1",":","8","0","0","0">>
s_default_endpoint == <<"/","v","1","/","c","h","a","t","/","c","o","m","p","l","e","t","i","o","n","s">>
s_default_timeout == <<"1","2","0">>
s_empty_object == <<"{","}">>
s_content_type == <<"C","o","n","t","e","n","t","-","T","y","p","e">>
s_application_json == <<"a","p","p","l","i","c","a","t","i","o","n","/","j","s","o","n">>
s_authorization == <<"A","u","t","h","o","r","i","z","a","t","i","o","n">>
s_bearer == <<"B","e","a","r","e","r"," ">>
s_POST == <<"P","O","S","T">>
s_empty == <<>>
s_newline == <<"\n">>
s_no_description == <<"N","o"," ","d","e","s","c","r","i","p","t","i","o","n"," ","p","r","o","v","i","d","e","d">>

-----------------------------------------------------------------------------
(* to_text *)

to_text(value) ==
    IF value = PyNone THEN s_empty
    ELSE IF is_str(value) THEN value.s
    ELSE json_dumps(value)

-----------------------------------------------------------------------------
(* blocks_to_openai_messages *)

\* {"role": role, "content": content}
role_content(role, content) ==
    PyDict(<< <<s_role, PyStr(role)>>, <<s_content, PyStr(content)>> >>)

\* the tool call appended for a tool_use block
tool_call_of(block) ==
    PyDict(<< <<s_id, Or(Get(block, s_id), PyStr(s_empty))>>,
              <<s_type, PyStr(s_function)>>,
              <<s_function,
                PyDict(<< <<s_name, Or(Get(block, s_name), PyStr(s_empty))>>,
                          <<s_arguments,
                            PyStr(json_dumps(Or(Get(block, s_input), PyDict(<<>>))))>> >>)>> >>)

\* the loop over the blocks of an assistant message
RECURSIVE assistant_scan(_, _, _)
assistant_scan(content, text_parts, tool_calls) ==
    IF content = <<>> THEN [text_parts |-> text_parts, tool_calls |-> tool_calls]
    ELSE LET block == Head(content)
             rest == Tail(content)
         IN  IF ~is_dict(block)
             THEN assistant_scan(rest, Append(text_parts, to_text(block)), tool_calls)
             ELSE LET btype == Get(block, s_type)
                  IN  IF btype = PyStr(s_text)
                      THEN assistant_scan(rest,
                               Append(text_parts, to_text(Get(block, s_text))),
                               tool_calls)
                      ELSE IF btype = PyStr(s_tool_use)
                      THEN assistant_scan(rest, text_parts,
                               Append(tool_calls, tool_call_of(block)))
                      ELSE assistant_scan(rest, text_parts, tool_calls)

\* variant of assistant_message: tool_calls is set even when it is empty
assistant_message_always_calls(text_parts, tool_calls) ==
    <<PyDict(<< <<s_role, PyStr(s_assistant)>>,
                <<s_content, PyStr(IF text_parts # <<>>
                                   THEN join(s_newline, non_empty(text_parts))
                                   ELSE s_empty)>>,
                <<s_tool_calls, PyList(tool_calls)>> >>)>>

\* the single message built after the assistant loop
assistant_message(text_parts, tool_calls) ==
    LET msg == PyDict(<< <<s_role, PyStr(s_assistant)>> >>)
        msg1 == Put(msg, s_content,
                    PyStr(IF text_parts # <<>>
                          THEN join(s_newline, non_empty(text_parts))
                          ELSE s_empty))
        msg2 == IF tool_calls # <<>>
                THEN Put(msg1, s_tool_calls, PyList(tool_calls))
                ELSE msg1
    IN  <<msg2>>

\* the tool-role message appended for a tool_result block
tool_result_message(block) ==
    LET call_id == Or(Or(Get(block, s_tool_use_id), Get(block, s_id)), PyStr(s_empty))
    IN  PyDict(<< <<s_role, PyStr(s_tool)>>,
                  <<s_tool_call_id, call_id>>,
                  <<s_content, PyStr(to_text(Get(block, s_content)))>> >>)

\* the loop over the blocks of a user message
RECURSIVE user_scan(_, _, _)
user_scan(content, out, text_parts) ==
    IF content = <<>> THEN [out |-> out, text_parts |-> text_parts]
    ELSE LET block == Head(content)
             rest == Tail(content)
         IN  IF ~is_dict(block)
             THEN user_scan(rest, out, Append(text_parts, to_text(block)))
             ELSE LET btype == Get(block, s_type)
                  IN  IF btype = PyStr(s_tool_result)
                      THEN user_scan(rest, Append(out, tool_result_message(block)),
                                     text_parts)
                      ELSE IF btype = PyStr(s_text)
                      THEN user_scan(rest, out,
                                     Append(text_parts, to_text(Get(block, s_text))))
                      ELSE user_scan(rest, out, Append(text_parts, to_text(block)))

\* variant of user_finish: the joined text is appended after the tool messages
user_finish_appended(out, text_parts) ==
    LET out1 == IF text_parts # <<>>
                THEN out \o <<role_content(s_user, join(s_newline, text_parts))>>
                ELSE out
    IN  IF out1 # <<>> THEN out1 ELSE <<role_content(s_user, s_empty)>>

\* what the user branch returns after its loop
user_finish(out, text_parts) ==
    LET out1 == IF text_parts # <<>>
                THEN <<role_content(s_user, join(s_newline, text_parts))>> \o out
                ELSE out
    IN  IF out1 # <<>> THEN out1 ELSE <<role_content(s_user, s_empty)>>

blocks_to_openai_messages(role, content) ==
    IF is_str(content) THEN <<role_content(role, content.s)>>
    ELSE IF ~is_list(content) THEN <<role_content(role, to_text(content))>>
    ELSE IF role = s_assistant
    THEN LET r == assistant_scan(content.items, <<>>, <<>>)
         IN  assistant_message(r.text_parts, r.tool_calls)
    ELSE IF role = s_user
    THEN LET r == user_scan(content.items, <<>>, <<>>)
         IN  user_finish(r.out, r.text_parts)
    ELSE <<role_content(role, to_text(content))>>

-----------------------------------------------------------------------------
(* canonical_to_openai_messages *)

\* `for x in xs or []`: the items iterated
items_or_empty(xs) == IF Truthy(xs) THEN xs.items ELSE <<>>

\* variant of system_messages: `if system_prompt:` instead of the None test
system_messages_if_truthy(system_prompt) ==
    IF Truthy(system_prompt)
    THEN <<role_content(s_system, to_text(system_prompt))>>
    ELSE <<>>

\* the messages the system prompt puts in front
system_messages(system_prompt) ==
    IF system_prompt # PyNone /\ to_text(system_prompt) # s_empty
    THEN <<role_content(s_system, to_text(system_prompt))>>
    ELSE <<>>

\* (message.get("role") or "user").strip() or "user"
message_role(message) ==
    LET stripped == strip(Or(Get(message, s_role), PyStr(s_user)).s)
    IN  IF stripped # s_empty THEN stripped ELSE s_user

canonical_to_openai_messages(system_prompt, messages) ==
    LET ms == items_or_empty(messages)
    IN  system_messages(system_prompt)
          \o Flatten([i \in 1..Len(ms) |->
                        blocks_to_openai_messages(message_role(ms[i]),
                                                  Get(ms[i], s_content))])

-----------------------------------------------------------------------------
(* canonical_to_openai_tools *)

default_schema ==
    PyDict(<< <<s_type, PyStr(s_object)>>, <<s_properties, PyDict(<<>>)>> >>)

\* variant of tool_schema: the default only when the key is missing
tool_schema_if_missing(tool) ==
    IF HasKey(tool, s_input_schema) THEN Get(tool, s_input_schema) ELSE default_schema

\* tool.get("input_schema") or {"type": "object", "properties": {}}
tool_schema(tool) == Or(Get(tool, s_input_schema), default_schema)

\* (tool.get("description") or "").strip() or "No description provided"
tool_desc(tool) ==
    LET stripped == strip(Or(Get(tool, s_description), PyStr(s_empty)).s)
    IN  IF stripped # s_empty THEN stripped ELSE s_no_description

openai_tool(tool) ==
    PyDict(<< <<s_type, PyStr(s_function)>>,
              <<s_function,
                PyDict(<< <<s_name, Or(Get(tool, s_name), PyStr(s_empty))>>,
                          <<s_description, PyStr(tool_desc(tool))>>,
                          <<s_parameters, tool_schema(tool)>> >>)>> >>)

canonical_to_openai_tools(tools) ==
    LET ts == items_or_empty(tools)
    IN  [i \in 1..Len(ts) |-> openai_tool(ts[i])]

-----------------------------------------------------------------------------
(* parse_openai_response *)

\* the input of the tool_use block built from function.arguments
tool_use_input(args) ==
    IF is_str(args) /\ strip(args.s) # s_empty
    THEN LET r == json_loads(args.s)
         IN  IF r.ok THEN r.v ELSE PyDict(<< <<s__raw, args>> >>)
    ELSE IF is_dict(args) THEN args
    ELSE PyDict(<<>>)

\* the tool_use block appended for one tool call
tool_use_block(tc) ==
    LET function == Or(Get(tc, s_function), PyDict(<<>>))
    IN  PyDict(<< <<s_type, PyStr(s_tool_use)>>,
                  <<s_id, Or(Get(tc, s_id), PyStr(s_empty))>>,
                  <<s_name, Or(Get(function, s_name), PyStr(s_empty))>>,
                  <<s_input, tool_use_input(Get(function, s_arguments))>> >>)

\* the leading text block
text_blocks(content) ==
    IF is_str(content) /\ content.s # s_empty
    THEN << PyDict(<< <<s_type, PyStr(s_text)>>, <<s_text, content>> >>) >>
    ELSE <<>>

\* the stop_reason of a trimmed, lower-cased finish_reason
stop_reason_of(finish_reason) ==
    IF finish_reason \in {s_tool_calls, s_function_call} THEN s_tool_use
    ELSE IF finish_reason = s_length THEN s_max_tokens
    ELSE s_end_turn

\* int(s) on a str: ok is FALSE where Python raises ValueError
int_of_str(s) ==
    LET t == strip(s)
        signed == char_at(t, 1) \in {"-", "+"}
        r == scan_digits(t, IF signed THEN 2 ELSE 1, 0)
    IN  IF is_digit(char_at(t, IF signed THEN 2 ELSE 1)) /\ r.i = Len(t) + 1
        THEN Good(IF char_at(t, 1) = "-" THEN 0 - r.v ELSE r.v, r.i)
        ELSE Bad

\* int(v): ok is FALSE where Python raises
int_of(v) ==
    CASE v.k = "int"  -> Good(v.n, 0)
      [] v.k = "bool" -> Good(IF v.b THEN 1 ELSE 0, 0)
      [] v.k = "str"  -> int_of_str(v.s)
      [] OTHER        -> Bad

\* choices[0] if choices else {}
first_choice(obj) ==
    LET choices == Or(Get(obj, s_choices), PyList(<<>>))
    IN  IF Truthy(choices) THEN choices.items[1] ELSE PyDict(<<>>)

\* where a lookup, an iteration or a str method is applied to a value that
\* does not have it (AttributeError, TypeError, KeyError, ValueError)
response_raises(obj) ==
    \/ ~is_dict(obj)
    \/ LET choices == Or(Get(obj, s_choices), PyList(<<>>))
       IN  \/ ~is_list(choices)
           \/ ~is_dict(first_choice(obj))
           \/ LET choice == first_choice(obj)
                  message == Or(Get(choice, s_message), PyDict(<<>>))
                  tcs == Or(Get(message, s_tool_calls), PyList(<<>>))
                  fr == Or(Get(choice, s_finish_reason), PyStr(s_empty))
                  usage == Or(Get(obj, s_usage), PyDict(<<>>))
              IN  \/ ~is_dict(message)
                  \/ ~is_list(tcs)
                  \/ \E i \in 1..Len(tcs.items) :
                        \/ ~is_dict(tcs.items[i])
                        \/ ~is_dict(Or(Get(tcs.items[i], s_function), PyDict(<<>>)))
                  \/ ~is_str(fr)
                  \/ ~is_dict(usage)
                  \/ ~int_of(Or(Get(usage, s_prompt_tokens), PyInt(0))).ok
                  \/ ~int_of(Or(Get(usage, s_completion_tokens), PyInt(0))).ok

Raised == [raised |-> TRUE, value |-> PyNone]
Returned(v) == [raised |-> FALSE, value |-> v]

parse_openai_response(obj) ==
    IF response_raises(obj) THEN Raised
    ELSE
    LET choice == first_choice(obj)
        message == Or(Get(choice, s_message), PyDict(<<>>))
        tcs == Or(Get(message, s_tool_calls), PyList(<<>>)).items
        blocks == text_blocks(Get(message, s_content))
                    \o [i \in 1..Len(tcs) |-> tool_use_block(tcs[i])]
        finish_reason == lower(strip(Or(Get(choice, s_finish_reason), PyStr(s_empty)).s))
        usage == Or(Get(obj, s_usage), PyDict(<<>>))
    IN  Returned(PyDict(<<
            <<s_model, Or(Get(obj, s_model), PyStr(s_empty))>>,
            <<s_blocks, PyList(blocks)>>,
            <<s_stop_reason, PyStr(stop_reason_of(finish_reason))>>,
            <<s_usage, PyDict(<<
                <<s_input_tokens,
                  PyInt(int_of(Or(Get(usage, s_prompt_tokens), PyInt(0))).v)>>,
                <<s_output_tokens,
                  PyInt(int_of(Or(Get(usage, s_completion_tokens), PyInt(0))).v)>> >>)>> >>))

-----------------------------------------------------------------------------
(* Inputs of the translation functions *)

SeqsUpTo(S, n) == UNION {[1..m -> S] : m \in 0..n}

Obj1(k1, v1) == PyDict(<< <<k1, v1>> >>)

in_hi == PyStr(<<"h","i">>)
in_t1 == PyStr(<<"t","1">>)
in_query == Obj1(<<"q">>, PyStr(<<"x">>))

\* content blocks: plain values, text, tool_use, tool_result, unknown kinds
Blocks ==
    { in_hi,
      PyNone,
      PyDict(<< <<s_type, PyStr(s_text)>>, <<s_text, PyStr(<<"a">>)>> >>),
      PyDict(<< <<s_type, PyStr(s_text)>>, <<s_text, PyStr(s_empty)>> >>),
      PyDict(<< <<s_type, PyStr(s_tool_use)>>, <<s_id, in_t1>>,
                <<s_name, PyStr(<<"s","e","a","r","c","h">>)>>, <<s_input, in_query>> >>),
      PyDict(<< <<s_type, PyStr(s_tool_use)>>, <<s_id, PyStr(<<"t","2">>)>> >>),
      PyDict(<< <<s_type, PyStr(s_tool_use)>> >>),
      PyDict(<< <<s_type, PyStr(s_tool_use)>>, <<s_id, PyNone>>,
                <<s_name, PyStr(s_empty)>>, <<s_input, PyNone>> >>),
      PyDict(<< <<s_type, PyStr(s_tool_result)>>, <<s_tool_use_id, in_t1>>,
                <<s_content, PyStr(<<"4","2">>)>> >>),
      PyDict(<< <<s_type, PyStr(s_tool_result)>>, <<s_id, PyStr(<<"t","2">>)>>,
                <<s_content, PyList(<<PyInt(1)>>)>> >>),
      PyDict(<< <<s_type, PyStr(<<"i","m","g">>)>>, <<<<"u">>, in_hi>> >>),
      Obj1(<<"x">>, PyInt(1)) }

Roles == {s_user, s_assistant, s_system}

Contents ==
    {in_hi, PyNone, PyInt(5)} \cup {PyList(bs) : bs \in SeqsUpTo(Blocks, MaxBlocks)}

\* canonical messages
Messages ==
    { PyDict(<< <<s_role, PyStr(s_user)>>, <<s_content, in_hi>> >>),
      PyDict(<< <<s_role, PyStr(<<" ">> \o s_assistant)>>,
                <<s_content, PyList(<< PyDict(<< <<s_type, PyStr(s_tool_use)>>,
                                                 <<s_id, in_t1>> >>) >>)>> >>),
      PyDict(<< <<s_content,
                  PyList(<< PyDict(<< <<s_type, PyStr(s_tool_result)>>,
                                      <<s_tool_use_id, in_t1>>,
                                      <<s_content, PyStr(<<"4","2">>)>> >>),
                            in_hi >>)>> >>),
      PyDict(<< <<s_role, PyStr(s_user)>>, <<s_content, PyList(<<>>)>> >>),
      PyDict(<< <<s_role, PyStr(<<" ">>)>>, <<s_content, PyNone>> >>),
      PyDict(<< <<s_role, PyStr(s_system)>>, <<s_content, PyStr(<<"x">>)>> >>) }

SystemPrompts ==
    { PyNone, PyStr(s_empty), PyStr(<<"B","e"," ","t","e","r","s","e">>), PyStr(<<" ">>),
      PyInt(0), PyBool(FALSE), PyList(<<>>), PyDict(<<>>), Obj1(<<"a">>, PyInt(1)) }

MessageLists == {PyNone} \cup {PyList(ms) : ms \in SeqsUpTo(Messages, MaxMessages)}

\* canonical tools: every combination of name, description and input_schema
Tools ==
    { PyDict(n \o d \o sc) :
        n \in { <<>>, << <<s_name, PyStr(<<"f">>)>> >>, << <<s_name, PyStr(s_empty)>> >> },
        d \in { <<>>, << <<s_description, PyStr(<<" ","d"," ">>)>> >>,
                << <<s_description, PyStr(<<" "," ">>)>> >>,
                << <<s_description, PyNone>> >> },
        sc \in { <<>>, << <<s_input_schema, PyDict(<<>>)>> >>,
                 << <<s_input_schema, PyNone>> >>,
                 << <<s_input_schema,
                      PyDict(<< <<s_type, PyStr(s_object)>>,
                                <<s_properties, Obj1(<<"q">>, PyDict(<<>>))>> >>)>> >> } }

ToolLists == {PyNone} \cup {PyList(ts) : ts \in SeqsUpTo(Tools, MaxTools)}

\* function.arguments of a tool call: JSON texts, other texts, other values
ArgumentTexts ==
    { <<"{","}">>,
      <<"{","\"","q","\"",":"," ","\"","x","\"","}">>,
      <<"5">>,
      <<"[","1","]">>,
      <<"n","u","l","l">>,
      <<"t","r","u","e">>,
      <<"\"","x","\"">>,
      <<"n","o","t"," ","j","s","o","n">>,
      <<" ">>,
      <<>> }

Arguments ==
    {PyStr(t) : t \in ArgumentTexts}
        \cup {Obj1(<<"a">>, PyInt(1)), PyNone, PyInt(7), PyList(<<PyInt(1)>>)}

ToolCalls ==
    { PyDict(<< <<s_id, PyStr(<<"c","1">>)>>,
                <<s_type, PyStr(s_function)>>,
                <<s_function, PyDict(<< <<s_name, PyStr(<<"f">>)>>,
                                        <<s_arguments, a>> >>)>> >>) : a \in Arguments }

FinishReasonTexts ==
    { <<>>,
      <<" "," ">>,
      <<"t","o","o","l","_","c","a","l","l","s">>,
      <<"T","O","O","L","_","C","A","L","L","S">>,
      <<" ","F","u","n","c","t","i","o","n","_","C","a","l","l"," ">>,
      <<"l","e","n","g","t","h">>,
      <<" ","L","E","N","G","T","H","\n">>,
      <<"s","t","o","p">>,
      <<"l","e","n","g","t","h","s">> }

\* the members a choice may hold for finish_reason (none: the key is missing)
FinishReasons ==
    { <<>>, << <<s_finish_reason, PyNone>> >> }
        \cup { << <<s_finish_reason, PyStr(t)>> >> : t \in FinishReasonTexts }
        \cup { << <<s_finish_reason, v>> >> :
                 v \in {PyInt(0), PyInt(5), PyBool(FALSE), PyBool(TRUE),
                        PyList(<<>>), PyList(<<PyStr(s_length)>>)} }

Responses ==
    { PyDict(<<>>), Obj1(s_choices, PyList(<<>>)) }
        \cup { PyDict(<< <<s_choices,
                 PyList(<< PyDict(<< <<s_message,
                                       PyDict(<< <<s_content, in_hi>>,
                                                 <<s_tool_calls, PyList(tcs)>> >>)>> >>
                                  \o fr) >>)>>,
                         <<s_model, PyStr(<<"m">>)>>,
                         <<s_usage, Obj1(s_prompt_tokens, PyInt(3))>> >>) :
                 tcs \in SeqsUpTo(ToolCalls, MaxToolCalls), fr \in FinishReasons }

-----------------------------------------------------------------------------
(* The translation functions applied to an input *)

\* a local of main that is not assigned yet
Unset == [k |-> "unset"]

Pending == [done |-> FALSE, value |-> <<>>]
Done(value) == [done |-> TRUE, value |-> value]

\* the driver does not run while a translation function is studied
DriverIdle ==
    /\ pc = "idle"
    /\ stdin = <<>>
    /\ env = <<>>
    /\ envelope = Unset
    /\ mode = Unset
    /\ openai_payload = Unset
    /\ req = Unset
    /\ raw = Unset
    /\ upstream = Unset
    /\ stdout = <<>>
    /\ stderr = <<>>
    /\ exit_status = -1
    /\ sent = <<>>

InitBlocks ==
    /\ DriverIdle
    /\ fn = "blocks_to_openai_messages"
    /\ fn_in \in [role : Roles, content : Contents]
    /\ fn_out = Pending

ApplyBlocks ==
    /\ fn = "blocks_to_openai_messages"
    /\ ~fn_out.done
    /\ fn_out' = Done(blocks_to_openai_messages(fn_in.role, fn_in.content))
    /\ UNCHANGED <<fn, fn_in>>
    /\ UNCHANGED driver_vars

SpecBlocks == InitBlocks /\ [][ApplyBlocks]_vars

InitMessages ==
    /\ DriverIdle
    /\ fn = "canonical_to_openai_messages"
    /\ fn_in \in [system_prompt : SystemPrompts, messages : MessageLists]
    /\ fn_out = Pending

ApplyMessages ==
    /\ fn = "canonical_to_openai_messages"
    /\ ~fn_out.done
    /\ fn_out' = Done(canonical_to_openai_messages(fn_in.system_prompt, fn_in.messages))
    /\ UNCHANGED <<fn, fn_in>>
    /\ UNCHANGED driver_vars

SpecMessages == InitMessages /\ [][ApplyMessages]_vars

InitTools ==
    /\ DriverIdle
    /\ fn = "canonical_to_openai_tools"
    /\ fn_in \in [tools : ToolLists]
    /\ fn_out = Pending

ApplyTools ==
    /\ fn = "canonical_to_openai_tools"
    /\ ~fn_out.done
    /\ fn_out' = Done(canonical_to_openai_tools(fn_in.tools))
    /\ UNCHANGED <<fn, fn_in>>
    /\ UNCHANGED driver_vars

SpecTools == InitTools /\ [][ApplyTools]_vars

InitResponse ==
    /\ DriverIdle
    /\ fn = "parse_openai_response"
    /\ fn_in \in [obj : Responses]
    /\ fn_out = Pending

ApplyResponse ==
    /\ fn = "parse_openai_response"
    /\ ~fn_out.done
    /\ fn_out' = Done(parse_openai_response(fn_in.obj))
    /\ UNCHANGED <<fn, fn_in>>
    /\ UNCHANGED driver_vars

SpecResponse == InitResponse /\ [][ApplyResponse]_vars

-----------------------------------------------------------------------------
(* main: the driver *)

\* os.getenv(name, default)
getenv(name, default) == IF env[name] = Unset THEN default ELSE env[name].s

\* s.rstrip("/")
RECURSIVE rstrip_slash(_)
rstrip_slash(s) ==
    IF s # <<>> /\ s[Len(s)] = "/" THEN rstrip_slash(SubSeq(s, 1, Len(s) - 1)) ELSE s

\* the process environments
Envs ==
    { [n \in {"OPENAI_MODEL", "OPENAI_BASE_URL", "OPENAI_ENDPOINT",
              "OPENAI_TIMEOUT_SEC", "OPENAI_API_KEY"} |->
         CASE n = "OPENAI_MODEL" -> m
           [] n = "OPENAI_BASE_URL" -> b
           [] n = "OPENAI_TIMEOUT_SEC" -> t
           [] n = "OPENAI_API_KEY" -> a
           [] OTHER -> Unset] :
        m \in {Unset, PyStr(<<" ","m","1">>)},
        b \in {Unset, PyStr(<<"h","t","t","p",":","/","/","h","/">>)},
        t \in {Unset, PyStr(<<"s","o","o","n">>)},
        a \in {Unset, PyStr(<<"k">>)} }

\* envelopes a caller may send
in_request_1 ==
    PyDict(<< <<s_system, PyStr(<<"B","e"," ","t","e","r","s","e">>)>>,
              <<s_messages, PyList(<< PyDict(<< <<s_role, PyStr(s_user)>>,
                                               <<s_content, in_hi>> >>) >>)>> >>)
in_request_2 ==
    PyDict(<< <<s_messages,
                PyList(<< PyDict(<< <<s_role, PyStr(s_user)>>,
                                    <<s_content,
                                      PyList(<< in_hi,
                                                PyDict(<< <<s_type, PyStr(s_tool_result)>>,
                                                          <<s_tool_use_id, in_t1>>,
                                                          <<s_content, PyStr(<<"4","2">>)>> >>) >>)>> >>) >>)>>,
              <<s_tools, PyList(<< PyDict(<< <<s_name, PyStr(<<"f">>)>> >>) >>)>>,
              <<s_model, PyStr(<<"m","2">>)>>,
              <<s_max_tokens, PyInt(5)>> >>)

Envelopes ==
    { PyDict(<< <<s_mode, PyStr(s_stream)>>, <<s_request, in_request_1>> >>),
      PyDict(<< <<s_request, in_request_2>> >>),
      PyDict(<< <<s_mode, PyStr(<<" ","S","t","r","e","a","m">>)>> >>),
      PyDict(<< <<s_mode, PyInt(5)>> >>),
      PyDict(<< <<s_request, Obj1(s_messages, PyInt(5))>> >>),
      PyDict(<< <<s_request, Obj1(s_max_tokens, PyList(<<PyInt(1)>>))>> >>),
      PyList(<<>>),
      PyNone }

\* texts on the input channel: envelopes, nothing, and texts that are not JSON
StdinTexts ==
    {json_dumps(e) : e \in Envelopes}
        \cup { s_empty, <<"n","o","t"," ","j","s","o","n">>, <<"{","\"","m","o","d","e","\"",":">> }

\* bodies a backend may answer with
UpstreamResponses ==
    { PyDict(<<>>),
      PyDict(<< <<s_choices,
                  PyList(<< PyDict(<< <<s_message, Obj1(s_content, in_hi)>>,
                                      <<s_finish_reason, PyStr(<<"s","t","o","p">>)>> >>) >>)>>,
                <<s_model, PyStr(<<"m">>)>> >>),
      PyDict(<< <<s_choices,
                  PyList(<< PyDict(<< <<s_message,
                                        Obj1(s_tool_calls,
                                             PyList(<< PyDict(<< <<s_id, PyStr(<<"c","1">>)>>,
                                                 <<s_function,
                                                   PyDict(<< <<s_name, PyStr(<<"f">>)>>,
                                                             <<s_arguments,
                                                               PyStr(json_dumps(in_query))>> >>)>> >>) >>))>>,
                                      <<s_finish_reason, PyStr(s_tool_calls)>> >>) >>)>> >>),
      PyDict(<< <<s_choices, PyList(<< Obj1(s_finish_reason, PyInt(5)) >>)>> >>),
      PyList(<<>>) }

ResponseBodies ==
    {json_dumps(r) : r \in UpstreamResponses}
        \cup { s_empty, <<"<","h","t","m","l",">">> }

HttpErrorCodes == {400, 500}

\* main can raise where it applies .get, .strip or int() to a value
messages_raise(messages) ==
    /\ Truthy(messages)
    /\ \/ ~is_list(messages)
       \/ \E i \in 1..Len(messages.items) :
             \/ ~is_dict(messages.items[i])
             \/ ~is_str(Or(Get(messages.items[i], s_role), PyStr(s_user)))

tools_raise(tools) ==
    /\ Truthy(tools)
    /\ \/ ~is_list(tools)
       \/ \E i \in 1..Len(tools.items) :
             \/ ~is_dict(tools.items[i])
             \/ ~is_str(Or(Get(tools.items[i], s_description), PyStr(s_empty)))

translate_raises(e) ==
    \/ ~is_dict(e)
    \/ ~is_str(Or(Get(e, s_mode), PyStr(s_complete)))
    \/ LET request == Or(Get(e, s_request), PyDict(<<>>))
       IN  \/ ~is_dict(request)
           \/ ~int_of(Or(Get(request, s_max_tokens), PyInt(1024))).ok
           \/ messages_raise(Get(request, s_messages))
           \/ tools_raise(Get(request, s_tools))

\* the payload main builds from the request
payload_of(request) ==
    LET override == strip(getenv("OPENAI_MODEL", s_empty))
        model == IF override # s_empty THEN PyStr(override)
                 ELSE Or(Get(request, s_model), PyStr(s_default_model))
        payload ==
            PyDict(<< <<s_model, model>>,
                      <<s_max_tokens,
                        PyInt(int_of(Or(Get(request, s_max_tokens), PyInt(1024))).v)>>,
                      <<s_messages,
                        PyList(canonical_to_openai_messages(Get(request, s_system),
                                                            Get(request, s_messages)))>> >>)
        tools == canonical_to_openai_tools(Get(request, s_tools))
    IN  IF tools # <<>> THEN Put(payload, s_tools, PyList(tools)) ELSE payload

\* the urllib Request main builds for a payload
request_of(payload) ==
    LET base_url == rstrip_slash(getenv("OPENAI_BASE_URL", s_default_base_url))
        endpoint == getenv("OPENAI_ENDPOINT", s_default_endpoint)
        headers == Obj1(s_content_type, PyStr(s_application_json))
        api_key == strip(getenv("OPENAI_API_KEY", s_empty))
    IN  [ url     |-> base_url \o endpoint,
          data    |-> json_dumps(payload),
          headers |-> IF api_key # s_empty
                      THEN Put(headers, s_authorization, PyStr(s_bearer \o api_key))
                      ELSE headers,
          method  |-> s_POST,
          timeout |-> int_of_str(getenv("OPENAI_TIMEOUT_SEC", s_default_timeout)).v ]

\* variant of fail: the diagnostic is written but the status is 0
fail_exit_zero(message) ==
    /\ stderr' = Append(stderr, message)
    /\ exit_status' = 0
    /\ pc' = "exited"

\* fail(message): write the diagnostic, exit with status 1
fail(message) ==
    /\ stderr' = Append(stderr, message)
    /\ exit_status' = 1
    /\ pc' = "exited"

\* an exception nobody catches: traceback on the error channel, status 1
uncaught ==
    /\ stderr' = Append(stderr, "Traceback")
    /\ exit_status' = 1
    /\ pc' = "exited"

InitMain ==
    /\ pc = "read"
    /\ stdin \in StdinTexts
    /\ env \in Envs
    /\ envelope = Unset
    /\ mode = Unset
    /\ openai_payload = Unset
    /\ req = Unset
    /\ raw = Unset
    /\ upstream = Unset
    /\ stdout = <<>>
    /\ stderr = <<>>
    /\ exit_status = -1
    /\ sent = <<>>
    /\ fn = "main"
    /\ fn_in = <<>>
    /\ fn_out = Pending

\* envelope = json.loads(sys.stdin.read() or "{}")
ReadEnvelope ==
    /\ pc = "read"
    /\ LET r == json_loads(IF stdin # s_empty THEN stdin ELSE s_empty_object)
       IN  IF r.ok
           THEN /\ envelope' = r.v
                /\ pc' = "translate"
                /\ UNCHANGED <<stderr, exit_status>>
           ELSE /\ fail("invalid envelope json")
                /\ UNCHANGED envelope
    /\ UNCHANGED <<stdin, env, mode, openai_payload, req, raw, upstream, stdout,
                   sent, fn, fn_in, fn_out>>

\* mode, request, model, openai_payload, tools
Translate ==
    /\ pc = "translate"
    /\ IF translate_raises(envelope)
       THEN /\ uncaught
            /\ UNCHANGED <<mode, openai_payload>>
       ELSE /\ mode' = PyStr(lower(strip(Or(Get(envelope, s_mode), PyStr(s_complete)).s)))
            /\ openai_payload' = payload_of(Or(Get(envelope, s_request), PyDict(<<>>)))
            /\ pc' = "prepare"
            /\ UNCHANGED <<stderr, exit_status>>
    /\ UNCHANGED <<stdin, env, envelope, req, raw, upstream, stdout, sent,
                   fn, fn_in, fn_out>>

\* base_url, endpoint, timeout, url, headers, req
PrepareRequest ==
    /\ pc = "prepare"
    /\ IF ~int_of_str(getenv("OPENAI_TIMEOUT_SEC", s_default_timeout)).ok
       THEN /\ uncaught
            /\ UNCHANGED req
       ELSE /\ req' = request_of(openai_payload)
            /\ pc' = "call"
            /\ UNCHANGED <<stderr, exit_status>>
    /\ UNCHANGED <<stdin, env, envelope, mode, openai_payload, raw, upstream,
                   stdout, sent, fn, fn_in, fn_out>>

\* except urllib.error.HTTPError
http_error(code) == fail("http error")

\* variant of request_failed: the call is attempted again
request_retried ==
    /\ pc' = "call"
    /\ UNCHANGED <<stderr, exit_status>>

\* except Exception: no connection, timeout, undecodable body
request_failed == fail("request failed")

\* urllib.request.urlopen(req, timeout=timeout), resp.read().decode("utf-8")
CallTransport ==
    /\ pc = "call"
    /\ sent' = Append(sent, req)
    /\ \/ \E body \in ResponseBodies :
            /\ raw' = PyStr(body)
            /\ pc' = "decode"
            /\ UNCHANGED <<stderr, exit_status>>
       \/ \E code \in HttpErrorCodes :
            /\ http_error(code)
            /\ UNCHANGED raw
       \/ /\ request_failed
          /\ UNCHANGED raw
    /\ UNCHANGED <<stdin, env, envelope, mode, openai_payload, req, upstream,
                   stdout, fn, fn_in, fn_out>>

\* upstream = json.loads(raw)
DecodeUpstream ==
    /\ pc = "decode"
    /\ LET r == json_loads(raw.s)
       IN  IF r.ok
           THEN /\ upstream' = r.v
                /\ pc' = "respond"
                /\ UNCHANGED <<stderr, exit_status>>
           ELSE /\ fail("invalid upstream json")
                /\ UNCHANGED upstream
    /\ UNCHANGED <<stdin, env, envelope, mode, openai_payload, req, raw, stdout,
                   sent, fn, fn_in, fn_out>>

\* the document printed for a mode
result_document(m, result) ==
    IF m = PyStr(s_stream) THEN Obj1(s_response, result) ELSE result

\* parsed = parse_openai_response(upstream); print(json.dumps(...))
WriteResult ==
    /\ pc = "respond"
    /\ LET r == parse_openai_response(upstream)
       IN  IF r.raised
           THEN /\ uncaught
                /\ UNCHANGED stdout
           ELSE /\ stdout' = Append(stdout,
                                json_dumps(result_document(mode, r.value)) \o s_newline)
                /\ pc' = "exited"
                /\ exit_status' = 0
                /\ UNCHANGED stderr
    /\ UNCHANGED <<stdin, env, envelope, mode, openai_payload, req, raw, upstream,
                   sent, fn, fn_in, fn_out>>

Next ==
    \/ ReadEnvelope
    \/ Translate
    \/ PrepareRequest
    \/ CallTransport
    \/ DecodeUpstream
    \/ WriteResult

Spec == InitMain /\ [][Next]_vars

-----------------------------------------------------------------------------
(* Properties of main *)

EnvelopeValid == json_loads(IF stdin # s_empty THEN stdin ELSE s_empty_object).ok

Diagnosed(message) == \E i \in 1..Len(stderr) : stderr[i] = message

\* C3: at most one result document is written, and only after the envelope
\* was parsed, the transport call returned a success response and its body
\* was parsed; once anything went wrong the run has ended with a nonzero
\* status and no result document.
C3_ResultOnlyOnSuccess ==
    fn = "main" =>
        /\ Len(stdout) <= 1
        /\ stdout # <<>> =>
              /\ EnvelopeValid
              /\ envelope # Unset
              /\ Len(sent) = 1
              /\ raw # Unset
              /\ json_loads(raw.s).ok
              /\ upstream = json_loads(raw.s).v
              /\ stderr = <<>>
        /\ stderr # <<>> =>
              /\ pc = "exited"
              /\ exit_status = 1
              /\ stdout = <<>>
        /\ (pc = "exited" /\ stdout = <<>>) => exit_status = 1

\* C3 witness: the body of a successful call is not JSON
C3_Witness ==
    /\ fn = "main"
    /\ pc = "exited"
    /\ Diagnosed("invalid upstream json")
    /\ Len(sent) = 1
    /\ exit_status = 1
    /\ stdout = <<>>

\* C4: the transport is called at most once, a failed call ends the run, and
\* an input that is not valid JSON ends the run before any translation and
\* any transport call.
C4_SingleAttempt ==
    fn = "main" =>
        /\ Len(sent) <= 1
        /\ (Diagnosed("http error") \/ Diagnosed("request failed")) =>
              /\ pc = "exited"
              /\ exit_status = 1
              /\ Len(sent) = 1
              /\ raw = Unset
        /\ ~EnvelopeValid =>
              /\ pc \in {"read", "exited"}
              /\ mode = Unset
              /\ openai_payload = Unset
              /\ req = Unset
              /\ sent = <<>>
              /\ pc = "exited" => (exit_status = 1 /\ Diagnosed("invalid envelope json"))

\* C4 witness: the single transport attempt failed
C4_Witness ==
    /\ fn = "main"
    /\ Diagnosed("request failed")
    /\ Len(sent) = 1
    /\ pc = "exited"

-----------------------------------------------------------------------------
(* Properties of blocks_to_openai_messages *)

IsBlockOf(b, kind) == is_dict(b) /\ Get(b, s_type) = PyStr(kind)
RoleOf(m) == Get(m, s_role).s
\* the field of a block, "" when it is missing or null
FieldOrEmpty(d, key) == IF Get(d, key) # PyNone THEN Get(d, key) ELSE PyStr(s_empty)
Contains(hay, needle) ==
    \E k \in 0..(Len(hay) - Len(needle)) : SubSeq(hay, k + 1, k + Len(needle)) = needle

BlocksCase(role) ==
    /\ fn = "blocks_to_openai_messages"
    /\ fn_out.done
    /\ fn_in.role = role
    /\ is_list(fn_in.content)

\* C5: a user message with block content yields one tool-role message per
\* tool_result block, in encounter order; when any other block exists, exactly
\* one user-role message with the newline-joined text, at the front; with
\* tool_result blocks only, no user-role message; with no block at all, the
\* single message {role: "user", content: ""}.
C5_UserTextPrecedesToolResults ==
    BlocksCase(s_user) =>
        LET blocks == fn_in.content.items
            out == fn_out.value
            results == SelectSeq(blocks, LAMBDA b : IsBlockOf(b, s_tool_result))
            others == SelectSeq(blocks, LAMBDA b : ~IsBlockOf(b, s_tool_result))
            tool_msgs == SelectSeq(out, LAMBDA m : RoleOf(m) = s_tool)
            user_msgs == SelectSeq(out, LAMBDA m : RoleOf(m) = s_user)
            text_of(b) == IF IsBlockOf(b, s_text) THEN to_text(Get(b, s_text))
                          ELSE to_text(b)
            call_id(b) == IF Truthy(Get(b, s_tool_use_id)) THEN Get(b, s_tool_use_id)
                          ELSE FieldOrEmpty(b, s_id)
        IN  /\ Len(tool_msgs) = Len(results)
            /\ \A i \in 1..Len(results) :
                  /\ Get(tool_msgs[i], s_tool_call_id) = call_id(results[i])
                  /\ Get(tool_msgs[i], s_content) = PyStr(to_text(Get(results[i], s_content)))
            /\ others # <<>> =>
                  /\ Len(user_msgs) = 1
                  /\ out[1] = role_content(s_user,
                                  join(s_newline, [i \in 1..Len(others) |-> text_of(others[i])]))
                  /\ SubSeq(out, 2, Len(out)) = tool_msgs
            /\ (others = <<>> /\ results # <<>>) => (user_msgs = <<>> /\ out = tool_msgs)
            /\ blocks = <<>> => out = <<role_content(s_user, s_empty)>>

\* C5 witness: tool_result blocks on both sides of a text-bearing block
C5_Witness ==
    /\ BlocksCase(s_user)
    /\ Len(fn_in.content.items) = 3
    /\ IsBlockOf(fn_in.content.items[1], s_tool_result)
    /\ IsBlockOf(fn_in.content.items[2], s_text)
    /\ IsBlockOf(fn_in.content.items[3], s_tool_result)
    /\ fn_in.content.items[1] # fn_in.content.items[3]
    /\ Len(fn_out.value) = 3

\* C6: an assistant message with block content yields exactly one assistant
\* message; tool_calls is present iff a tool_use block exists; when every block
\* is a tool_use block the content is "" and tool_calls holds one entry per
\* block, in order, with the block's id and name ("" when missing).
C6_AssistantToolCalls ==
    BlocksCase(s_assistant) =>
        LET blocks == fn_in.content.items
            out == fn_out.value
            uses == SelectSeq(blocks, LAMBDA b : IsBlockOf(b, s_tool_use))
        IN  /\ Len(out) = 1
            /\ RoleOf(out[1]) = s_assistant
            /\ HasKey(out[1], s_tool_calls) <=> (uses # <<>>)
            /\ Len(uses) = Len(blocks) =>
                  /\ Get(out[1], s_content) = PyStr(s_empty)
                  /\ uses # <<>> =>
                        LET calls == Get(out[1], s_tool_calls).items
                        IN  /\ Len(calls) = Len(uses)
                            /\ \A i \in 1..Len(uses) :
                                  /\ Get(calls[i], s_id) = FieldOrEmpty(uses[i], s_id)
                                  /\ Get(Get(calls[i], s_function), s_name)
                                        = FieldOrEmpty(uses[i], s_name)

\* C6 witness: two different tool_use blocks and nothing else
C6_Witness ==
    /\ BlocksCase(s_assistant)
    /\ Len(fn_in.content.items) = 2
    /\ \A i \in 1..2 : IsBlockOf(fn_in.content.items[i], s_tool_use)
    /\ HasKey(fn_in.content.items[1], s_name)
    /\ ~HasKey(fn_in.content.items[2], s_id)
    /\ Len(Get(fn_out.value[1], s_tool_calls).items) = 2

\* C8: under the assistant and the user role, every block the role's
\* translation does not handle (a non-object, or an object of unknown or
\* missing type) has its stringified form in the text of an emitted message
\* of that role.
C8_UnrecognizedBlocksBecomeText ==
    \A role \in {s_assistant, s_user} :
        BlocksCase(role) =>
            LET blocks == fn_in.content.items
                out == fn_out.value
                handled == IF role = s_assistant THEN {s_text, s_tool_use}
                           ELSE {s_text, s_tool_result}
                unhandled(b) == \A kind \in handled : ~IsBlockOf(b, kind)
            IN  \A i \in 1..Len(blocks) :
                    unhandled(blocks[i]) =>
                        \E j \in 1..Len(out) :
                            /\ RoleOf(out[j]) = role
                            /\ Contains(Get(out[j], s_content).s, to_text(blocks[i]))

-----------------------------------------------------------------------------
(* Properties of canonical_to_openai_messages *)

MessagesCase == fn = "canonical_to_openai_messages" /\ fn_out.done

\* C1: canonical_to_openai_messages never returns an empty list, whatever the
\* system prompt and the messages are.
C1_NeverEmpty == MessagesCase => Len(fn_out.value) >= 1

\* C10: a system prompt that is present and stringifies to a non-empty text
\* adds exactly one message, in front: {role: "system", content: the
\* stringified prompt}; an absent prompt, or one that stringifies to "", adds
\* nothing.
C10_SystemPromptFirst ==
    MessagesCase =>
        LET sp == fn_in.system_prompt
            out == fn_out.value
            rest == canonical_to_openai_messages(PyNone, fn_in.messages)
        IN  IF sp # PyNone /\ to_text(sp) # s_empty
            THEN /\ out # <<>>
                 /\ out[1] = role_content(s_system, to_text(sp))
                 /\ Tail(out) = rest
            ELSE out = rest

\* C10 witness: a non-string prompt is JSON-encoded in front of the messages
C10_Witness ==
    /\ MessagesCase
    /\ fn_in.system_prompt = PyInt(0)
    /\ Truthy(fn_in.messages)
    /\ Get(fn_out.value[1], s_content) = PyStr(<<"0">>)
    /\ Len(fn_out.value) > 1

-----------------------------------------------------------------------------
(* Properties of canonical_to_openai_tools *)

ToolsCase == fn = "canonical_to_openai_tools" /\ fn_out.done

\* what every entry carries besides its parameters
ToolEntryShape(tool, entry) ==
    LET f == Get(entry, s_function)
        d == Get(tool, s_description)
    IN  /\ Get(entry, s_type) = PyStr(s_function)
        /\ Get(f, s_name) = FieldOrEmpty(tool, s_name)
        /\ Get(f, s_description) =
              PyStr(IF is_str(d) /\ strip(d.s) # s_empty THEN strip(d.s)
                    ELSE s_no_description)

\* C9 as stated: same length and order, and parameters is the tool's
\* input_schema whenever one is present, the empty schema object included,
\* and {type: "object", properties: {}} only when it is absent.
C9_SchemaWheneverPresent ==
    ToolsCase =>
        LET ts == items_or_empty(fn_in.tools)
            out == fn_out.value
        IN  /\ Len(out) = Len(ts)
            /\ \A i \in 1..Len(ts) :
                  /\ ToolEntryShape(ts[i], out[i])
                  /\ Get(Get(out[i], s_function), s_parameters) =
                        IF Get(ts[i], s_input_schema) # PyNone
                        THEN Get(ts[i], s_input_schema)
                        ELSE default_schema

\* C9 amended: same length and order, and parameters is the tool's
\* input_schema whenever it is present and non-empty, and
\* {type: "object", properties: {}} when it is absent, null or empty.
C9_SchemaWhenNonEmpty ==
    ToolsCase =>
        LET ts == items_or_empty(fn_in.tools)
            out == fn_out.value
        IN  /\ Len(out) = Len(ts)
            /\ (fn_in.tools = PyNone \/ fn_in.tools = PyList(<<>>)) => out = <<>>
            /\ \A i \in 1..Len(ts) :
                  /\ ToolEntryShape(ts[i], out[i])
                  /\ Get(Get(out[i], s_function), s_parameters) =
                        IF Truthy(Get(ts[i], s_input_schema))
                        THEN Get(ts[i], s_input_schema)
                        ELSE default_schema

\* C9 witness: an empty schema object next to a non-empty one
C9_Witness ==
    /\ ToolsCase
    /\ Len(items_or_empty(fn_in.tools)) = 2
    /\ Get(fn_in.tools.items[1], s_input_schema) = PyDict(<<>>)
    /\ Truthy(Get(fn_in.tools.items[2], s_input_schema))
    /\ Get(Get(fn_out.value[1], s_function), s_parameters) = default_schema
    /\ Get(Get(fn_out.value[2], s_function), s_parameters) # default_schema

-----------------------------------------------------------------------------
(* Properties of parse_openai_response *)

ResponseCase == fn = "parse_openai_response" /\ fn_out.done

\* C2: the input of every tool_use block parse_openai_response emits is a
\* JSON object, whatever function.arguments is.
C2_ToolInputIsObject ==
    (ResponseCase /\ ~fn_out.value.raised) =>
        LET blocks == Get(fn_out.value.value, s_blocks).items
        IN  \A i \in 1..Len(blocks) :
                IsBlockOf(blocks[i], s_tool_use) => is_dict(Get(blocks[i], s_input))

\* C7: for every finish_reason of the first choice (a text in any case and
\* with any surrounding whitespace, "", null, missing, or a non-string) the
\* call returns without raising; stop_reason is tool_use exactly for
\* "tool_calls" and "function_call", max_tokens exactly for "length", once
\* trimmed and lower-cased, and end_turn in every other case.
C7_FinishReasonTotal ==
    (ResponseCase /\ Truthy(Get(fn_in.obj, s_choices))) =>
        LET fr == Get(Get(fn_in.obj, s_choices).items[1], s_finish_reason)
            norm == IF is_str(fr) THEN lower(strip(fr.s)) ELSE s_empty
        IN  /\ ~fn_out.value.raised
            /\ Get(fn_out.value.value, s_stop_reason) =
                  PyStr(IF norm = s_tool_calls \/ norm = s_function_call THEN s_tool_use
                        ELSE IF norm = s_length THEN s_max_tokens
                        ELSE s_end_turn)

====
